---- MODULE Spec2Model ----
(***************************************************************************)
(* Video Shazam: per-second amplitude-envelope fingerprints                *)
(* (fingerprinter.py), their JSON store (reference_store.py) and the       *)
(* query driver (main.py).                                                 *)
(*                                                                         *)
(* Numbers.  A sample is an integer number of quarters (k stands for the   *)
(* float k/4, which float32 and float64 both hold exactly).  A fingerprint *)
(* value is an integer number of tenths (t stands for round(x, 1) = t/10). *)
(* An L1 distance is a sum of tenths; the sum is taken exactly, where the  *)
(* code takes it in binary floating point.                                 *)
(***************************************************************************)
EXTENDS Integers, Sequences, FiniteSets, TLC

VARIABLES
    y,            \* samples that librosa.load decoded from the audio file
    sr,           \* the sample rate librosa.load reported
    query,        \* the query fingerprint handed to the matcher
    references,   \* the reference fingerprints handed to the matcher
    directory,    \* the fingerprint directory: [exists, files]
    saved,        \* history: the fingerprint last saved under each index
    ret,          \* outcome of the last call
    player,       \* what run_query handed to _launch_player
    pc            \* where main.py is: idle, or inside the loop of build_index

vars == <<y, sr, query, references, directory, saved, ret, player, pc>>

(***************************************************************************)
(* Bounds                                                                  *)
(***************************************************************************)
MaxSamples == 4
MaxRate == 2
MaxQueryLen == 2
MaxRefLen == 3
MaxRefs == 2
MaxTotalRefLen == 4
MaxStoredLen == 2
MaxClipLen == 2
MaxCount == 2

\* Sample values, in quarters: -0.75, 0.0, 0.25, 1.0
Amplitudes == {-3, 0, 1, 4}

\* Fingerprint values the matcher is tried on, in tenths: 0.0, 0.3
Levels == {0, 3}

\* Fingerprint values the store is tried on, in tenths: 0.3, 1.0
StoredLevels == {3, 10}

\* Sample values of the clips main.py is run on, in quarters: 0.25, 1.0
ClipAmplitudes == {1, 4}

\* Sample rates of the clips main.py is run on: one sample per second
ClipRates == {1}

\* Video indices the store is tried on: 2 sorts before 10 as a number only
VideoIndices == {1, 2, 10}

RECURSIVE SeqsUpTo(_, _)
SeqsUpTo(S, n) ==
    IF n = 0 THEN {<<>>}
    ELSE LET shorter == SeqsUpTo(S, n - 1)
         IN  shorter \cup {Append(s, x) : s \in {t \in shorter : Len(t) = n - 1}, x \in S}

Min(a, b) == IF a < b THEN a ELSE b

(***************************************************************************)
(* Outcomes of a call: a normal return, or a raised exception              *)
(***************************************************************************)
\* arg names what the call was applied to, when the state does not already
NoCall == [op |-> "none", arg |-> 0, status |-> "none", value |-> <<>>]
Return(op, v) == [op |-> op, arg |-> 0, status |-> "return", value |-> v]
Raise(op, exc) == [op |-> op, arg |-> 0, status |-> "raise", value |-> exc]
ReturnAt(op, a, v) == [op |-> op, arg |-> a, status |-> "return", value |-> v]
RaiseAt(op, a, exc) == [op |-> op, arg |-> a, status |-> "raise", value |-> exc]

NoPlayer == [launched |-> FALSE, video_number |-> 0, start_second |-> 0]

Idle == [at |-> "idle", idx |-> 0, count |-> 0]

(***************************************************************************)
(* fingerprinter.py: extraction                                            *)
(***************************************************************************)
Abs(x) == IF x < 0 THEN -x ELSE x

\* np.max(np.abs(chunk)) of a non-empty chunk, in quarters
MaxAbs(chunk) ==
    CHOOSE m \in {Abs(chunk[i]) : i \in 1..Len(chunk)} :
        \A i \in 1..Len(chunk) : Abs(chunk[i]) <= m

\* round(a/4, 1) in tenths: Python rounds the exact value, halves to even
Round1(a) ==
    LET q == (10 * a) \div 4
        r == (10 * a) % 4
    IN  IF 2 * r < 4 THEN q
        ELSE IF 2 * r > 4 THEN q + 1
        ELSE IF q % 2 = 0 THEN q ELSE q + 1

\* [y[offset : offset + sr] for offset in range(0, len(y), sr)]
Chunks(samples, rate) ==
    [i \in 1..((Len(samples) + rate - 1) \div rate) |->
        SubSeq(samples, (i - 1) * rate + 1, Min(i * rate, Len(samples)))]

\* chunks.pop() raises IndexError on the empty list
extract_fingerprint(samples, rate) ==
    LET chunks == Chunks(samples, rate)
    IN  IF Len(chunks) = 0
        THEN Raise("extract_fingerprint", "IndexError")
        ELSE Return("extract_fingerprint",
                    [k \in 1..(Len(chunks) - 1) |-> Round1(MaxAbs(chunks[k]))])

(***************************************************************************)
(* Specification of the extractor alone                                    *)
(***************************************************************************)
EmptyDirectory == [exists |-> FALSE, files |-> <<>>]

InitExtract ==
    /\ y \in SeqsUpTo(Amplitudes, MaxSamples)
    /\ sr \in 1..MaxRate
    /\ query = <<>>
    /\ references = <<>>
    /\ directory = EmptyDirectory
    /\ saved = <<>>
    /\ ret = NoCall
    /\ player = NoPlayer
    /\ pc = Idle

Extract ==
    /\ ret = NoCall
    /\ ret' = extract_fingerprint(y, sr)
    /\ UNCHANGED <<y, sr, query, references, directory, saved, player, pc>>

NextExtract == Extract

SpecExtract == InitExtract /\ [][NextExtract]_vars

(***************************************************************************)
(* C1: for len(y) >= sr, extract_fingerprint returns floor(len(y) / sr)    *)
(* values, the k-th being the rounded peak of samples k*sr .. (k+1)*sr-1   *)
(* (0-based), also when len(y) is an exact multiple of sr.                 *)
(***************************************************************************)
C1_FullSeconds ==
    (ret.op = "extract_fingerprint" /\ Len(y) >= sr) =>
        /\ ret.status = "return"
        /\ Len(ret.value) = Len(y) \div sr
        /\ \A k \in 1..Len(ret.value) :
               ret.value[k] = Round1(MaxAbs(SubSeq(y, (k - 1) * sr + 1, k * sr)))

(***************************************************************************)
(* C2: for len(y) < sr, len(y) = 0 included, extract_fingerprint returns   *)
(* the empty fingerprint and does not fail.                                *)
(***************************************************************************)
C2_ShortAudioEmpty ==
    (ret.op = "extract_fingerprint" /\ Len(y) < sr) =>
        ret = Return("extract_fingerprint", <<>>)

(***************************************************************************)
(* fingerprinter.py: matching                                              *)
(***************************************************************************)
\* A distance is a finite sum of tenths or math.inf
Fin(d) == [fin |-> TRUE, val |-> d]
Inf == [fin |-> FALSE, val |-> 0]

\* Variant: <= in place of <, so that the last of equal costs wins
LtOrEqual(a, b) == a.fin /\ (~b.fin \/ a.val <= b.val)

\* a < b on floats with math.inf
Lt(a, b) == a.fin /\ (~b.fin \/ a.val < b.val)

RECURSIVE SumTo(_, _)
SumTo(f, n) == IF n = 0 THEN 0 ELSE f[n] + SumTo(f, n - 1)

\* sum(abs(q - reference[offset + j]) for j, q in enumerate(query)), offset 0-based
l1_distance(q, reference, offset) ==
    SumTo([j \in 1..Len(q) |-> Abs(q[j] - reference[offset + j])], Len(q))

\* The loop of best_match_position from `offset` on, with the best so far
RECURSIVE ScanOffsets(_, _, _, _, _)
ScanOffsets(q, reference, offset, best_offset, best_distance) ==
    IF offset > Len(reference) - Len(q)
    THEN <<best_offset, best_distance>>
    ELSE LET dist == Fin(l1_distance(q, reference, offset))
         IN  IF Lt(dist, best_distance)
             THEN ScanOffsets(q, reference, offset + 1, offset, dist)
             ELSE ScanOffsets(q, reference, offset + 1, best_offset, best_distance)

\* Variant: max_offset <= 0 in place of max_offset < 0
best_match_position_strict(q, reference) ==
    IF Len(reference) - Len(q) <= 0
    THEN <<-1, Inf>>
    ELSE ScanOffsets(q, reference, 0, -1, Inf)

best_match_position(q, reference) ==
    IF Len(reference) - Len(q) < 0
    THEN <<-1, Inf>>
    ELSE ScanOffsets(q, reference, 0, -1, Inf)

\* The loop of find_best_video from reference i (1-based here, video_idx = i - 1)
RECURSIVE ScanVideos(_, _, _, _, _, _)
ScanVideos(q, refs, i, best_video, best_frame, best_distance) ==
    IF i > Len(refs)
    THEN <<best_video, best_frame, best_distance>>
    ELSE LET m == best_match_position(q, refs[i])
         IN  IF Lt(m[2], best_distance)
             THEN ScanVideos(q, refs, i + 1, i - 1, m[1], m[2])
             ELSE ScanVideos(q, refs, i + 1, best_video, best_frame, best_distance)

\* Variant: best_video starts at 0 in place of -1
find_best_video_from_zero(q, refs) == ScanVideos(q, refs, 1, 0, -1, Inf)

find_best_video(q, refs) == ScanVideos(q, refs, 1, -1, -1, Inf)

(***************************************************************************)
(* Specification of the matcher alone                                      *)
(***************************************************************************)
\* Reference lists of at most MaxTotalRefLen seconds in all
ReferenceLists ==
    {rs \in SeqsUpTo(SeqsUpTo(Levels, MaxRefLen), MaxRefs) :
        SumTo([i \in 1..Len(rs) |-> Len(rs[i])], Len(rs)) <= MaxTotalRefLen}

InitMatch ==
    /\ y = <<>>
    /\ sr = 1
    /\ query \in SeqsUpTo(Levels, MaxQueryLen)
    /\ references \in ReferenceLists
    /\ directory = EmptyDirectory
    /\ saved = <<>>
    /\ ret = NoCall
    /\ player = NoPlayer
    /\ pc = Idle

BestMatchPosition(i) ==
    /\ ret = NoCall
    /\ ret' = ReturnAt("best_match_position", i, best_match_position(query, references[i]))
    /\ UNCHANGED <<y, sr, query, references, directory, saved, player, pc>>

FindBestVideo ==
    /\ ret = NoCall
    /\ ret' = Return("find_best_video", find_best_video(query, references))
    /\ UNCHANGED <<y, sr, query, references, directory, saved, player, pc>>

NextMatch ==
    \/ \E i \in 1..Len(references) : BestMatchPosition(i)
    \/ FindBestVideo

SpecMatch == InitMatch /\ [][NextMatch]_vars

(***************************************************************************)
(* What the matcher claims speak of, stated without the code's loops       *)
(***************************************************************************)
RECURSIVE WindowCost(_, _, _)
\* sum over j of |q[j] - reference[offset + j]|, front to back
WindowCost(q, window, offset) ==
    IF q = <<>> THEN 0
    ELSE Abs(Head(q) - window[offset + 1]) + WindowCost(Tail(q), window, offset + 1)

ValidOffsets(q, reference) == 0..(Len(reference) - Len(q))

LeastCost(q, reference) ==
    CHOOSE d \in {WindowCost(q, reference, o) : o \in ValidOffsets(q, reference)} :
        \A o \in ValidOffsets(q, reference) : d <= WindowCost(q, reference, o)

FirstOffsetAt(q, reference, d) ==
    CHOOSE o \in ValidOffsets(q, reference) :
        /\ WindowCost(q, reference, o) = d
        /\ \A p \in ValidOffsets(q, reference) : WindowCost(q, reference, p) = d => o <= p

Sentinel2 == <<-1, Inf>>
Sentinel3 == <<-1, -1, Inf>>

\* a is at most b, on distances
DistLeq(a, b) == ~b.fin \/ (a.fin /\ a.val <= b.val)

Fits(q, reference) == Len(q) <= Len(reference)

(***************************************************************************)
(* C3: for len(query) <= len(reference), best_match_position returns       *)
(* (o, d), d the least window cost over the offsets 0 .. len(reference) -  *)
(* len(query) and o the smallest offset of that cost; matching a sequence  *)
(* against itself returns (0, 0).                                          *)
(***************************************************************************)
C3_LeastCostFirstOffset ==
    (ret.op = "best_match_position" /\ Fits(query, references[ret.arg])) =>
        LET reference == references[ret.arg]
            d == LeastCost(query, reference)
        IN  /\ ret.value = <<FirstOffsetAt(query, reference, d), Fin(d)>>
            /\ reference = query => ret.value = <<0, Fin(0)>>

\* A call where two offsets tie for the least cost and an earlier offset costs more
C3_Witness ==
    /\ ret.op = "best_match_position"
    /\ Fits(query, references[ret.arg])
    /\ LET reference == references[ret.arg]
           d == LeastCost(query, reference)
       IN  /\ Cardinality({o \in ValidOffsets(query, reference) :
                              WindowCost(query, reference, o) = d}) >= 2
           /\ WindowCost(query, reference, 0) > d
           /\ ret.value[1] > 0

(***************************************************************************)
(* C4: when some reference is at least as long as the query,               *)
(* find_best_video returns (v, o, d): d the least best_match_position      *)
(* distance over the references, v the first position (0-based) with that  *)
(* distance, and (o, d) = best_match_position(query, references[v]).       *)
(***************************************************************************)
C4_LeastDistanceFirstVideo ==
    (ret.op = "find_best_video" /\ \E i \in 1..Len(references) : Fits(query, references[i])) =>
        LET m == [i \in 1..Len(references) |-> best_match_position(query, references[i])]
            d == (CHOOSE i \in 1..Len(references) :
                     \A k \in 1..Len(references) : DistLeq(m[i][2], m[k][2]))
            v == CHOOSE i \in 1..Len(references) :
                     /\ m[i][2] = m[d][2]
                     /\ \A k \in 1..Len(references) : m[k][2] = m[d][2] => i <= k
        IN  /\ ret.status = "return"
            /\ ret.value = <<v - 1, m[v][1], m[d][2]>>
            /\ <<ret.value[2], ret.value[3]>> = m[ret.value[1] + 1]

\* A call where two references tie for the least distance, at a non-zero cost
C4_Witness ==
    /\ ret.op = "find_best_video"
    /\ Len(references) >= 2
    /\ Fits(query, references[1])
    /\ best_match_position(query, references[1]) = best_match_position(query, references[2])
    /\ ret.value[1] = 0
    /\ ret.value[3].fin
    /\ ret.value[3].val > 0

(***************************************************************************)
(* C5: best_match_position returns (-1, inf) whenever the query is longer  *)
(* than the reference, and a valid offset with a finite distance whenever  *)
(* it is not.                                                              *)
(***************************************************************************)
C5_SentinelIffTooLong ==
    ret.op = "best_match_position" =>
        LET reference == references[ret.arg]
        IN  /\ ret.status = "return"
            /\ Len(query) > Len(reference) => ret.value = Sentinel2
            /\ Fits(query, reference) =>
                   /\ ret.value[1] \in ValidOffsets(query, reference)
                   /\ ret.value[2].fin

\* A call with a non-empty query against the empty reference
C5_Witness ==
    /\ ret.op = "best_match_position"
    /\ query # <<>>
    /\ references[ret.arg] = <<>>
    /\ ret.value = Sentinel2

(***************************************************************************)
(* C6: find_best_video returns (-1, -1, inf) exactly when there is no      *)
(* reference or every reference is shorter than the query, and it returns  *)
(* normally for every combination of lengths.                              *)
(***************************************************************************)
C6_SentinelIffNoFit ==
    ret.op = "find_best_video" =>
        /\ ret.status = "return"
        /\ ret.value = Sentinel3 <=>
               \A i \in 1..Len(references) : ~Fits(query, references[i])

\* A call where references exist and each is shorter than the query
C6_Witness ==
    /\ ret.op = "find_best_video"
    /\ Len(references) >= 2
    /\ \A i \in 1..Len(references) : ~Fits(query, references[i])
    /\ ret.value = Sentinel3

(***************************************************************************)
(* reference_store.py: text                                                *)
(* A text (file name or file content) is a sequence of characters.         *)
(***************************************************************************)
DigitChars == <<"0", "1", "2", "3", "4", "5", "6", "7", "8", "9">>

IsDigit(c) == \E d \in 1..Len(DigitChars) : DigitChars[d] = c

DigitValue(c) == (CHOOSE d \in 1..Len(DigitChars) : DigitChars[d] = c) - 1

\* str(n) of an integer
RECURSIVE Str(_)
Str(n) ==
    IF n < 0 THEN <<"-">> \o Str(-n)
    ELSE IF n < 10 THEN <<DigitChars[n + 1]>>
    ELSE Append(Str(n \div 10), DigitChars[(n % 10) + 1])

\* int(s) of a non-empty string of digits
RECURSIVE ParseInt(_)
ParseInt(s) ==
    IF Len(s) = 1 THEN DigitValue(s[1])
    ELSE 10 * ParseInt(SubSeq(s, 1, Len(s) - 1)) + DigitValue(s[Len(s)])

\* repr of the float t/10, as json.dumps writes it
FloatRepr(t) == Str(t \div 10) \o <<".">> \o <<DigitChars[(t % 10) + 1]>>

\* float(s) of a decimal with one fractional digit, in tenths
ParseFloat(s) ==
    LET dot == CHOOSE i \in 1..Len(s) : s[i] = "."
    IN  10 * ParseInt(SubSeq(s, 1, dot - 1)) + ParseInt(SubSeq(s, dot + 1, Len(s)))

RECURSIVE JoinItems(_)
JoinItems(fp) ==
    IF fp = <<>> THEN <<>>
    ELSE IF Len(fp) = 1 THEN FloatRepr(fp[1])
    ELSE FloatRepr(Head(fp)) \o <<",">> \o JoinItems(Tail(fp))

\* json.dumps(fingerprint, separators=(",", ":"))
Dumps(fp) == <<"[">> \o JoinItems(fp) \o <<"]">>

RECURSIVE ParseItems(_)
ParseItems(body) ==
    IF body = <<>> THEN <<>>
    ELSE IF \E i \in 1..Len(body) : body[i] = ","
    THEN LET comma == CHOOSE i \in 1..Len(body) :
                          body[i] = "," /\ \A k \in 1..(i - 1) : body[k] # ","
         IN  <<ParseFloat(SubSeq(body, 1, comma - 1))>>
                 \o ParseItems(SubSeq(body, comma + 1, Len(body)))
    ELSE <<ParseFloat(body)>>

\* json.loads of an array of numbers
Loads(text) == ParseItems(SubSeq(text, 2, Len(text) - 1))

(***************************************************************************)
(* reference_store.py: the store                                           *)
(***************************************************************************)
VideoPrefix == <<"v", "i", "d", "e", "o">>
JsonSuffix == <<".", "j", "s", "o", "n">>

\* Variant: the index is left out of the file name
path_for_fixed(video_index) == VideoPrefix \o JsonSuffix

\* directory / f"video{video_index}.json", as the name inside the directory
path_for(video_index) == VideoPrefix \o Str(video_index) \o JsonSuffix

Put(f, k, v) == [x \in (DOMAIN f) \cup {k} |-> IF x = k THEN v ELSE f[x]]

\* directory.mkdir(parents=True, exist_ok=True); path.write_text(json.dumps(...))
save_fingerprint(dir, fingerprint, video_index) ==
    [exists |-> TRUE, files |-> Put(dir.files, path_for(video_index), Dumps(fingerprint))]

\* json.loads(path.read_text()); read_text raises FileNotFoundError
load_fingerprint(dir, video_index) ==
    IF dir.exists /\ path_for(video_index) \in DOMAIN dir.files
    THEN ReturnAt("load_fingerprint", video_index, Loads(dir.files[path_for(video_index)]))
    ELSE RaiseAt("load_fingerprint", video_index, "FileNotFoundError")

HasPrefix(s, pre) == Len(s) >= Len(pre) /\ SubSeq(s, 1, Len(pre)) = pre
HasSuffix(s, suf) == Len(s) >= Len(suf) /\ SubSeq(s, Len(s) - Len(suf) + 1, Len(s)) = suf

\* Variant: the pattern "*.json"
GlobMatchesAnyJson(name) == HasSuffix(name, JsonSuffix)

\* The pattern "video*.json"
GlobMatches(name) ==
    /\ Len(name) >= Len(VideoPrefix) + Len(JsonSuffix)
    /\ HasPrefix(name, VideoPrefix)
    /\ HasSuffix(name, JsonSuffix)

\* Path.stem: the name without its last suffix
Stem(name) ==
    IF \E i \in 2..Len(name) : name[i] = "."
    THEN LET dot == CHOOSE i \in 2..Len(name) :
                        name[i] = "." /\ \A k \in (i + 1)..Len(name) : name[k] # "."
         IN  SubSeq(name, 1, dot - 1)
    ELSE name

\* _index: int("".join(filter(str.isdigit, p.stem)) or -1)
index_of(name) ==
    LET digits == SelectSeq(Stem(name), IsDigit)
    IN  IF digits = <<>> THEN -1 ELSE ParseInt(digits)

\* One step of a stable sort: x goes after every element whose key is not larger
InsertByIndex(sorted, x) ==
    LET n == Cardinality({i \in 1..Len(sorted) : index_of(sorted[i]) <= index_of(x)})
    IN  SubSeq(sorted, 1, n) \o <<x>> \o SubSeq(sorted, n + 1, Len(sorted))

RECURSIVE InsertAll(_, _)
InsertAll(sorted, rest) ==
    IF rest = <<>> THEN sorted
    ELSE InsertAll(InsertByIndex(sorted, Head(rest)), Tail(rest))

\* Variant: the paths are left in the order glob yields them
Unsorted(paths) == paths

\* sorted(paths, key=_index)
SortedByIndex(paths) == InsertAll(<<>>, paths)

\* The orders in which directory.glob may yield the matching names
Listings(dir) ==
    LET names == {n \in DOMAIN dir.files : GlobMatches(n)}
    IN  {l \in [1..Cardinality(names) -> names] : \A i, k \in DOMAIN l : l[i] = l[k] => i = k}

\* load_all_fingerprints, glob yielding the names in the order `listing`
load_all_fingerprints(dir, listing) ==
    IF ~dir.exists
    THEN ReturnAt("load_all_fingerprints", listing, <<>>)
    ELSE LET paths == SortedByIndex(listing)
         IN  ReturnAt("load_all_fingerprints", listing,
                      [i \in 1..Len(paths) |-> Loads(dir.files[paths[i]])])

(***************************************************************************)
(* Specification of the store alone                                        *)
(***************************************************************************)
\* A file that is no fingerprint record
OtherName == <<"i", "n", "d", "e", "x">> \o JsonSuffix

\* The directory is absent, empty, or holds only a file that is no record
DirectoriesBefore ==
    { EmptyDirectory,
      [exists |-> TRUE, files |-> <<>>],
      [exists |-> TRUE, files |-> Put(<<>>, OtherName, Dumps(<<>>))] }

InitStore ==
    /\ y = <<>>
    /\ sr = 1
    /\ query = <<>>
    /\ references = <<>>
    /\ directory \in DirectoriesBefore
    /\ saved = <<>>
    /\ ret = NoCall
    /\ player = NoPlayer
    /\ pc = Idle

\* A run of the program saves (build_index) and then loads once (run_query):
\* a load returns to the caller, which saves nothing more.
Saving == ret.op \in {"none", "save_fingerprint"}

\* arg tells whether the save replaced a record
SaveFingerprint(fingerprint, video_index) ==
    /\ Saving
    /\ directory' = save_fingerprint(directory, fingerprint, video_index)
    /\ saved' = Put(saved, video_index, fingerprint)
    /\ ret' = ReturnAt("save_fingerprint", video_index \in DOMAIN saved, <<>>)
    /\ UNCHANGED <<y, sr, query, references, player, pc>>

LoadFingerprint(video_index) ==
    /\ Saving
    /\ ret' = load_fingerprint(directory, video_index)
    /\ UNCHANGED <<y, sr, query, references, directory, saved, player, pc>>

LoadAllFingerprints ==
    /\ Saving
    /\ \E listing \in Listings(directory) :
           ret' = load_all_fingerprints(directory, listing)
    /\ UNCHANGED <<y, sr, query, references, directory, saved, player, pc>>

NextStore ==
    \/ \E fingerprint \in SeqsUpTo(StoredLevels, MaxStoredLen), video_index \in VideoIndices :
           SaveFingerprint(fingerprint, video_index)
    \/ \E video_index \in VideoIndices : LoadFingerprint(video_index)
    \/ LoadAllFingerprints

SpecStore == InitStore /\ [][NextStore]_vars

(***************************************************************************)
(* C7: after any sequence of saves, load_fingerprint(i) returns the        *)
(* fingerprint last saved under i, whatever was saved under other indices  *)
(* since; an index never saved under has no record.                        *)
(***************************************************************************)
C7_LoadReturnsLastSaved ==
    /\ \A i \in VideoIndices :
           load_fingerprint(directory, i) =
               IF i \in DOMAIN saved
               THEN ReturnAt("load_fingerprint", i, saved[i])
               ELSE RaiseAt("load_fingerprint", i, "FileNotFoundError")
    /\ (ret.op = "load_fingerprint" /\ ret.arg \in DOMAIN saved) =>
           (ret.status = "return" /\ ret.value = saved[ret.arg])

\* A save has just replaced a record, and every index holds a different record
C7_Witness ==
    /\ ret.op = "save_fingerprint"
    /\ ret.arg = TRUE
    /\ DOMAIN saved = VideoIndices
    /\ \A i, k \in VideoIndices : saved[i] = saved[k] => i = k
    /\ \E i \in VideoIndices : Len(saved[i]) >= 2 /\ saved[i][1] # saved[i][2]
    /\ \A i \in VideoIndices : load_fingerprint(directory, i).value = saved[i]

\* The indices of S in ascending order
Ascending(S) ==
    [k \in 1..Cardinality(S) |->
        CHOOSE i \in S : Cardinality({j \in S : j < i}) = k - 1]

(***************************************************************************)
(* C8: load_all_fingerprints returns one fingerprint per record            *)
(* video<N>.json, in ascending numeric N, in whatever order the file       *)
(* system lists the records.                                               *)
(***************************************************************************)
C8_LoadAllAscending ==
    ret.op = "load_all_fingerprints" =>
        /\ ret.status = "return"
        /\ ret.value = [k \in 1..Cardinality(DOMAIN saved) |->
                           saved[Ascending(DOMAIN saved)[k]]]

\* The records 10, 2, 1 listed in that order and returned as 1, 2, 10
C8_Witness ==
    /\ ret.op = "load_all_fingerprints"
    /\ ret.arg = <<path_for(10), path_for(2), path_for(1)>>
    /\ \A i, k \in VideoIndices : saved[i] = saved[k] => i = k
    /\ ret.value = <<saved[1], saved[2], saved[10]>>

(***************************************************************************)
(* C9: load_all_fingerprints returns the empty list, normally, when the    *)
(* directory does not exist or holds no record.                            *)
(***************************************************************************)
C9_LoadAllEmpty ==
    (ret.op = "load_all_fingerprints" /\ (~directory.exists \/ DOMAIN saved = {})) =>
        ret.status = "return" /\ ret.value = <<>>

\* The directory exists and holds a file that is no record
C9_Witness ==
    /\ ret.op = "load_all_fingerprints"
    /\ directory.exists
    /\ OtherName \in DOMAIN directory.files
    /\ DOMAIN saved = {}
    /\ ret.value = <<>>

(***************************************************************************)
(* main.py                                                                 *)
(***************************************************************************)
Clips == [y : SeqsUpTo(ClipAmplitudes, MaxClipLen), sr : ClipRates]

\* python main.py build-index <audio_dir> --count <count>
StartBuildIndex(count) ==
    /\ pc = Idle
    /\ ret.op \in {"none", "build_index"}
    /\ pc' = [at |-> "build_index", idx |-> 1, count |-> count]
    /\ ret' = NoCall
    /\ UNCHANGED <<y, sr, query, references, directory, saved, player>>

\* The loop of build_index moves to the next index, or returns after the last
AfterIndex ==
    IF pc.idx < pc.count
    THEN pc' = [pc EXCEPT !.idx = pc.idx + 1] /\ ret' = NoCall
    ELSE pc' = Idle /\ ret' = Return("build_index", <<>>)

\* if not audio_path.exists(): continue
BuildIndexSkip ==
    /\ pc.at = "build_index"
    /\ AfterIndex
    /\ UNCHANGED <<y, sr, query, references, directory, saved, player>>

\* fingerprint = extract_fingerprint(audio_path); save_fingerprint(fingerprint, idx)
BuildIndexSave(clip) ==
    /\ pc.at = "build_index"
    /\ LET fingerprint == extract_fingerprint(clip.y, clip.sr)
       IN  IF fingerprint.status = "raise"
           THEN /\ pc' = Idle
                /\ ret' = Raise("build_index", fingerprint.value)
                /\ UNCHANGED <<directory, saved>>
           ELSE /\ directory' = save_fingerprint(directory, fingerprint.value, pc.idx)
                /\ saved' = Put(saved, pc.idx, fingerprint.value)
                /\ AfterIndex
    /\ UNCHANGED <<y, sr, query, references, player>>

\* run_query from line 90 on: `loaded` is what load_all_fingerprints returned
\* and `extracted` the outcome of extract_fingerprint(query_audio)
run_query(loaded, extracted) ==
    IF loaded = <<>>
    THEN [references |-> loaded, query |-> <<>>, player |-> NoPlayer,
          ret |-> Raise("run_query", "SystemExit")]
    ELSE IF extracted.status = "raise"
    THEN [references |-> loaded, query |-> <<>>, player |-> NoPlayer,
          ret |-> Raise("run_query", extracted.value)]
    ELSE LET match == find_best_video(extracted.value, loaded)
             video_number == match[1] + 1
         IN  [references |-> loaded, query |-> extracted.value,
              player |-> [launched |-> TRUE, video_number |-> video_number,
                          start_second |-> match[2]],
              ret |-> Return("run_query", match)]

\* python main.py <query_video> <query_audio>; the process ends with the player
RunQuery(clip) ==
    /\ pc = Idle
    /\ ret.op \in {"none", "build_index"}
    /\ \E listing \in Listings(directory) :
       \E loaded \in {load_all_fingerprints(directory, listing).value} :
       \E extracted \in {extract_fingerprint(clip.y, clip.sr)} :
       \E run \in {run_query(loaded, extracted)} :
           /\ references' = run.references
           /\ query' = run.query
           /\ player' = run.player
           /\ ret' = run.ret
    /\ y' = clip.y
    /\ sr' = clip.sr
    /\ UNCHANGED <<directory, saved, pc>>

Init ==
    /\ y = <<>>
    /\ sr = 1
    /\ query = <<>>
    /\ references = <<>>
    /\ directory = EmptyDirectory
    /\ saved = <<>>
    /\ ret = NoCall
    /\ player = NoPlayer
    /\ pc = Idle

Next ==
    \/ \E count \in 1..MaxCount : StartBuildIndex(count)
    \/ BuildIndexSkip
    \/ \E clip \in Clips : BuildIndexSave(clip)
    \/ \E clip \in Clips : RunQuery(clip)

Spec == Init /\ [][Next]_vars

(***************************************************************************)
(* C10: run_query checks for the no-match result before it uses the video  *)
(* index or the offset: when every stored reference is shorter than the    *)
(* query, nothing derived from (-1, -1) is handed to the player.           *)
(***************************************************************************)
C10_SentinelNotPlayed ==
    (/\ ret.op = "run_query"
     /\ ret.status = "return"
     /\ \A i \in 1..Len(references) : Len(references[i]) < Len(query)) =>
        ~player.launched

(***************************************************************************)
(* C11: for a database saved under 1-based indices, gaps included, the     *)
(* video number run_query plays (returned position + 1) is the index under *)
(* which the best-matching fingerprint was saved.                          *)
(***************************************************************************)
C11_PlayedIsSavedIndex ==
    (/\ ret.op = "run_query"
     /\ ret.status = "return"
     /\ ret.value[1] >= 0) =>
        /\ player.launched
        /\ player.video_number = Ascending(DOMAIN saved)[ret.value[1] + 1]
        /\ saved[player.video_number] = references[ret.value[1] + 1]

====
